---- MODULE Spec2Model ----
(***************************************************************************)
(* A model of the record store of player_visualization:                    *)
(*   src/database_manager.py  MLBDatabaseManager (fetch driver, retention  *)
(*                            sweep, de-duplication, ledger)               *)
(*   src/mlb_data_scraper.py  MLBDataScraper.calculate_advanced_metrics    *)
(*                                                                         *)
(* The SQLite file is modelled twice: `disk` is what has been committed,   *)
(* `conn` is what the manager's connection sees (committed rows plus the   *)
(* changes of its open transaction).  Dates are day numbers: the code      *)
(* compares 'YYYY-MM-DD' strings, whose order is the order of the days.    *)
(* A nullable column holds NULL (the empty tuple) or Some(v).              *)
(***************************************************************************)
EXTENDS Integers, Sequences, FiniteSets

VARIABLES
    conn,      \* the tables as seen through self.conn
    disk,      \* the tables as committed to the database file
    today,     \* datetime.now(), as a day number
    pc,        \* "idle", or "range" inside fetch_and_store_date_range
    range,     \* the locals of fetch_and_store_date_range
    last,      \* the call that returned last: its arguments, inputs, result
    metrics,   \* the frame calculate_advanced_metrics returned last
    player_register,  \* self.player_register: NULL, or Some(the frame)
    loads,     \* the calls of pyb.chadwick_register() by this manager
    sweep,     \* the locals of a remove_old_data that runs statement by statement
    writers    \* the processes that fetch a date concurrently

vars == <<conn, disk, today, pc, range, last, metrics, player_register, loads,
          sweep, writers>>

-----------------------------------------------------------------------------
(* Bounds of the model.                                                    *)

\* The AUTOINCREMENT ids of data_updates stay <= MaxUpdateId: a behaviour
\* holds at most MaxUpdateId fetches that write the ledger (and so at most
\* MaxUpdateId inserts into statcast_data).
MaxUpdateId == 2

\* The calendar: yesterday and today, as day numbers.
Dates == {1, 2}
Today == CHOOSE d \in Dates : \A e \in Dates : e <= d

\* remove_old_data is called with days_to_keep in Windows, which puts the
\* cutoff on every date of the calendar.
Windows == {Today - d : d \in Dates}

-----------------------------------------------------------------------------
(* Values.                                                                 *)

NULL == <<>>
Some(v) == <<v>>

\* No remove_old_data is under way; no process is fetching concurrently.
NoSweep == [cutoff_date |-> 0, done |-> 0]
NoWriters == <<>>

Min(S) == CHOOSE x \in S : \A y \in S : x <= y

\* The ids of a set of rows, ascending.
RECURSIVE SortedIds(_)
SortedIds(S) ==
    IF S = {} THEN <<>>
    ELSE LET m == Min(S) IN <<m>> \o SortedIds(S \ {m})

-----------------------------------------------------------------------------
(* The remote source, pyb.statcast(start_dt, end_dt): a frame is a         *)
(* sequence of rows, a row maps the provider's column names to values.     *)
(* The provider's columns that no modelled statement reads are left out,   *)
(* but for `inning`, which stands for the columns outside the allow-list.  *)

Pitch(game_pk, pitcher, batter, balls, strikes, pitch_type, speed, angle) ==
    [game_pk |-> game_pk, pitcher |-> pitcher, batter |-> batter,
     balls |-> balls, strikes |-> strikes, pitch_type |-> pitch_type,
     player_name |-> "Cole, Gerrit", launch_speed |-> speed,
     launch_angle |-> angle, inning |-> 1]

\* Four pitch events of one game.  Foul agrees with First on game, pitcher,
\* batter, count and pitch type (a foul ball replayed at the same count);
\* NextBatter differs from First in its batter alone; Slider is another
\* count and pitch type.
First == Pitch(1, "543037", "592450", 0, 0, "FF", Some(98), Some(30))
Foul == Pitch(1, "543037", "592450", 0, 0, "FF", NULL, Some(28))
NextBatter == Pitch(1, "543037", "660271", 0, 0, "FF", Some(98), Some(31))
Slider == Pitch(1, "543037", "592450", 1, 0, "SL", Some(97), Some(26))

\* The responses of the remote source that the model draws from: no game
\* that day, one pitch, two pitches that agree on the natural key, two
\* pitches that differ in the batter alone.
Frames == { <<>>, <<Slider>>, <<First, Foul>>, <<NextBatter, First>> }

-----------------------------------------------------------------------------
(* The schema (create_tables) and the column allow-list.                   *)

StatcastColumns ==
    {"date", "player_name", "pitch_type", "game_date", "release_speed",
     "release_pos_x", "release_pos_y", "release_pos_z", "batter", "pitcher",
     "events", "description", "zone", "stand", "p_throws", "home_team",
     "away_team", "type", "hit_location", "bb_type", "balls", "strikes",
     "pfx_x", "pfx_z", "plate_x", "plate_z", "vx0", "vy0", "vz0",
     "ax", "ay", "az", "sz_top", "sz_bot", "hit_distance_sc",
     "launch_speed", "launch_angle", "effective_speed", "release_spin_rate",
     "release_extension", "game_pk", "hc_x", "hc_y"}

\* The columns of statcast_data that a modelled statement reads or writes.
StatcastTable ==
    {"id", "date", "player_name", "pitch_type", "batter", "pitcher",
     "balls", "strikes", "launch_speed", "launch_angle", "game_pk",
     "pitcher_id", "batter_id", "barrel"}

\* UNIQUE(date, game_pk, pitcher_id, batter_id, balls, strikes, pitch_type)
NaturalKey(r) ==
    <<r.date, r.game_pk, r.pitcher_id, r.batter_id, r.balls, r.strikes,
      r.pitch_type>>

\* A row of daily_hitting or daily_pitching (UNIQUE(date, player_name)).
DailyLine(id, date) == [id |-> id, date |-> date, player_name |-> "Cole, Gerrit"]

EmptyStore ==
    [statcast_data |-> {}, daily_hitting |-> {}, daily_pitching |-> {},
     data_updates |-> {}, seq_statcast |-> 0, seq_updates |-> 0]

\* A database file that already holds a hitting and a pitching line for
\* each date of S (no code of the repository writes these two tables).
LegacyStore(S) ==
    [EmptyStore EXCEPT !.daily_hitting = {DailyLine(d, d) : d \in S},
                       !.daily_pitching = {DailyLine(d, d) : d \in S}]

-----------------------------------------------------------------------------
(* The connection: statements change conn, commit copies it to disk,       *)
(* rollback and close drop the open transaction.                           *)

Commit(s) == [conn |-> s.conn, disk |-> s.conn]
Rollback(s) == [conn |-> s.disk, disk |-> s.disk]

-----------------------------------------------------------------------------
(* The barrel flag.  pandas compares a missing value (NaN) as False, and   *)
(* Series.between includes both ends.                                      *)

\* Series >= y
Ge(x, y) == x # NULL /\ x[1] >= y

\* Mutant: between(left, right, inclusive="neither").
Between_Exclusive(x, left, right) == x # NULL /\ left < x[1] /\ x[1] < right

\* Series.between(left, right)
Between(x, left, right) == x # NULL /\ left <= x[1] /\ x[1] <= right

\* .fillna(False).astype(int)
AsInt(b) == IF b THEN 1 ELSE 0

\* fetch_and_store_single_day: statcast_subset['barrel']
BarrelOfSubset(row) ==
    AsInt(Ge(row.launch_speed, 98) /\ Between(row.launch_angle, 26, 30))

\* calculate_advanced_metrics: barrel_mask
BarrelMask(row) ==
    Ge(row.launch_speed, 98) /\ Between(row.launch_angle, 26, 30)

\* row with column c set to v
WithColumn(row, c, v) ==
    [k \in DOMAIN row \cup {c} |-> IF k = c THEN v ELSE row[k]]

\* MLBDataScraper.calculate_advanced_metrics.  The frames of the model have
\* no release_speed column, so velo_percentile is never added.
CalculateAdvancedMetrics(statcast_df) ==
    IF statcast_df = <<>> THEN statcast_df
    ELSE [i \in DOMAIN statcast_df |->
            IF {"launch_speed", "launch_angle"} \subseteq DOMAIN statcast_df[i]
            THEN WithColumn(statcast_df[i], "barrel", AsInt(BarrelMask(statcast_df[i])))
            ELSE statcast_df[i]]

-----------------------------------------------------------------------------
(* fetch_and_store_single_day, statement by statement.                     *)

\* statcast_data['date'] = date_str; keep the allow-listed columns; add barrel
StatcastSubset(statcast_data, date) ==
    [i \in DOMAIN statcast_data |->
        LET dated == WithColumn(statcast_data[i], "date", date)
            kept == [c \in DOMAIN dated \cap StatcastColumns |-> dated[c]]
        IN WithColumn(kept, "barrel", BarrelOfSubset(kept))]

\* Mutant: the check for existing rows finds none.
ExistingCount_Blind(db, date) == 0

\* SELECT COUNT(*) FROM statcast_data WHERE date = ?
ExistingCount(db, date) ==
    Cardinality({r \in db.statcast_data : r.date = date})

\* Mutant: the DELETE keeps the first row of the date.
DeleteDay_KeepsOne(db, date) ==
    [db EXCEPT !.statcast_data =
        {r \in @ : r.date # date \/ \A q \in @ : q.date = date => r.id <= q.id}]

\* DELETE FROM statcast_data WHERE date = ?
DeleteDay(db, date) ==
    [db EXCEPT !.statcast_data = {r \in @ : r.date # date}]

\* One frame row as a table row: the columns the frame lacks are NULL, the
\* id is the next AUTOINCREMENT value.
TableRow(row, id) ==
    [c \in StatcastTable |->
        IF c = "id" THEN id ELSE IF c \in DOMAIN row THEN row[c] ELSE NULL]

\* Mutant: the constraint takes two NULLs as equal.
UniqueConflict_NullsEqual(rows) ==
    \E r1, r2 \in rows : r1.id # r2.id /\ NaturalKey(r1) = NaturalKey(r2)

\* SQLite's UNIQUE: two rows conflict when they agree on every key column
\* and none of these is NULL (NULLs are distinct from one another).  Of the
\* key columns only pitcher_id and batter_id are ever NULL in the model.
UniqueConflict(rows) ==
    \E r1, r2 \in rows :
        /\ r1.id # r2.id
        /\ NaturalKey(r1) = NaturalKey(r2)
        /\ r1.pitcher_id # NULL
        /\ r1.batter_id # NULL

\* Mutant: of the rows of the frame that agree on game, pitcher, batter,
\* count and pitch type only the first is written (drop_duplicates).
Appended_Distinct(db, subset) ==
    [db EXCEPT !.statcast_data =
                   @ \cup {TableRow(subset[i], db.seq_statcast + i) :
                             i \in {k \in DOMAIN subset :
                                      \A j \in 1..(k - 1) :
                                         <<subset[j].game_pk, subset[j].pitcher,
                                           subset[j].batter, subset[j].balls,
                                           subset[j].strikes, subset[j].pitch_type>>
                                         # <<subset[k].game_pk, subset[k].pitcher,
                                             subset[k].batter, subset[k].balls,
                                             subset[k].strikes, subset[k].pitch_type>>}},
               !.seq_statcast = @ + Len(subset)]

\* statcast_subset.to_sql('statcast_data', if_exists='append'): the rows
\* the INSERT adds
Appended(db, subset) ==
    [db EXCEPT !.statcast_data =
                   @ \cup {TableRow(subset[i], db.seq_statcast + i) : i \in DOMAIN subset},
               !.seq_statcast = @ + Len(subset)]

\* Mutant: the ledger is unique on update_date, so a write replaces the
\* rows written on the same day.
InsertOrReplaceUpdate_ByUpdateDate(db, update_date, data_date, records_added, status) ==
    [db EXCEPT !.data_updates =
                  {u \in @ : u.update_date # update_date /\ u.data_date # data_date}
                  \cup {[id |-> db.seq_updates + 1, update_date |-> update_date,
                         data_date |-> data_date, records_added |-> records_added,
                         status |-> status]},
               !.seq_updates = @ + 1]

\* INSERT OR REPLACE INTO data_updates (update_date, data_date,
\* records_added, status): UNIQUE(data_date) removes the row in conflict.
InsertOrReplaceUpdate(db, update_date, data_date, records_added, status) ==
    [db EXCEPT !.data_updates =
                   {r \in @ : r.data_date # data_date} \cup
                   {[id |-> db.seq_updates + 1, update_date |-> update_date,
                     data_date |-> data_date, records_added |-> records_added,
                     status |-> status]},
               !.seq_updates = @ + 1]

\* 'success' and f'error: {str(e)}': a status is the tuple of its parts.
SuccessStatus == <<"success">>
ErrorStatus(e) == <<"error: ", e>>

\* The statements that may raise: the remote call, the INSERT of to_sql,
\* the INSERT of the success ledger row.  (The DELETE of the day raising
\* leaves the store as the remote call raising does.)  The handler's own
\* statements are taken to succeed.
Faults == {"none", "remote", "insert", "ledger"}

\* Mutant: the rows of the date are deleted before the frame is tested
\* for emptiness.
TryBlock_DeleteFirst(s, date, statcast_data, fault, now) ==
    IF fault = "remote"
    THEN [s |-> s, raised |-> TRUE, outcome |-> "error", existing |-> NULL]
    ELSE
      LET subset == StatcastSubset(statcast_data, date)
          existing_count == ExistingCount(s.conn, date)
          deleted == IF existing_count > 0
                     THEN Commit([s EXCEPT !.conn = DeleteDay(@, date)])
                     ELSE s
          inserted == [deleted EXCEPT !.conn = Appended(@, subset)]
      IN IF statcast_data = <<>>
         THEN [s |-> deleted, raised |-> FALSE, outcome |-> "empty", existing |-> NULL]
         ELSE IF fault = "insert" \/ UniqueConflict(inserted.conn.statcast_data)
         THEN [s |-> Rollback(deleted), raised |-> TRUE, outcome |-> "error",
               existing |-> Some(existing_count)]
         ELSE IF fault = "ledger"
         THEN [s |-> Commit(inserted), raised |-> TRUE, outcome |-> "error",
               existing |-> Some(existing_count)]
         ELSE [s |-> Commit([Commit(inserted) EXCEPT !.conn =
                        InsertOrReplaceUpdate(@, now, date, Len(subset), SuccessStatus)]),
               raised |-> FALSE, outcome |-> "success",
               existing |-> Some(existing_count)]

\* The try block.  s is [conn, disk]; the result says whether an exception
\* was raised and how far the statements got.
TryBlock(s, date, statcast_data, fault, now) ==
    IF fault = "remote"
    THEN [s |-> s, raised |-> TRUE, outcome |-> "error", existing |-> NULL]
    ELSE IF statcast_data = <<>>
    THEN [s |-> s, raised |-> FALSE, outcome |-> "empty", existing |-> NULL]
    ELSE
      LET subset == StatcastSubset(statcast_data, date)
          existing_count == ExistingCount(s.conn, date)
          deleted == IF existing_count > 0
                     THEN Commit([s EXCEPT !.conn = DeleteDay(@, date)])
                     ELSE s
          inserted == [deleted EXCEPT !.conn = Appended(@, subset)]
      IN IF fault = "insert" \/ UniqueConflict(inserted.conn.statcast_data)
         THEN \* to_sql rolls its transaction back and raises again
              [s |-> Rollback(deleted), raised |-> TRUE, outcome |-> "error",
               existing |-> Some(existing_count)]
         ELSE IF fault = "ledger"
         THEN [s |-> Commit(inserted), raised |-> TRUE, outcome |-> "error",
               existing |-> Some(existing_count)]
         ELSE [s |-> Commit([Commit(inserted) EXCEPT !.conn =
                        InsertOrReplaceUpdate(@, now, date, Len(subset), SuccessStatus)]),
               raised |-> FALSE, outcome |-> "success",
               existing |-> Some(existing_count)]

\* Mutant: the handler only prints.
ExceptHandler_PrintOnly(s, date, e, now) == s

\* except Exception as e
ExceptHandler(s, date, e, now) ==
    Commit([s EXCEPT !.conn = InsertOrReplaceUpdate(@, now, date, 0, ErrorStatus(e))])

\* fetch_and_store_single_day(date) with the remote source answering
\* statcast_data and the statement named by fault raising.
FetchAndStoreSingleDay(s, date, statcast_data, fault, now) ==
    LET t == TryBlock(s, date, statcast_data, fault, now)
    IN IF t.raised
       THEN [s |-> ExceptHandler(t.s, date, fault, now), outcome |-> t.outcome,
             existing |-> t.existing, escaped |-> FALSE]
       ELSE [s |-> t.s, outcome |-> t.outcome, existing |-> t.existing,
             escaped |-> FALSE]

\* What a call meets: the frame the remote source answers and the statement
\* that raises.  A remote call that raises answers nothing, and an INSERT
\* is only reached with a frame that has rows.
FetchInputs ==
    {[frame |-> f, fault |-> "none"] : f \in Frames}
    \cup {[frame |-> <<>>, fault |-> "remote"]}
    \cup {[frame |-> f, fault |-> e] :
             f \in Frames \ {<<>>}, e \in Faults \ {"none", "remote"}}

\* The model keeps the AUTOINCREMENT ids within its bound: a call that
\* writes the ledger needs an id <= MaxUpdateId.
Fits(db, in) ==
    \/ in.frame = <<>> /\ in.fault = "none"
    \/ db.seq_updates + 1 <= MaxUpdateId

\* What a call of fetch_and_store_single_day was given and how it ended:
\* existing is the existing_count it read (NULL when it did not get there),
\* again says that the call before it was a successful fetch of the same
\* date that was answered the same frame.
FetchCall(date, in, res) ==
    [op |-> "fetch_and_store_single_day", date |-> date, frame |-> in.frame,
     fault |-> in.fault, outcome |-> res.outcome, existing |-> res.existing,
     escaped |-> res.escaped,
     again |-> /\ last.op = "fetch_and_store_single_day"
               /\ last.outcome = "success"
               /\ last.date = date
               /\ last.frame = in.frame]

FetchSingleDay ==
    /\ pc = "idle"
    /\ \E date \in Dates, in \in FetchInputs :
        /\ Fits(conn, in)
        /\ LET res == FetchAndStoreSingleDay([conn |-> conn, disk |-> disk],
                                             date, in.frame, in.fault, today)
           IN /\ conn' = res.s.conn
              /\ disk' = res.s.disk
              /\ last' = FetchCall(date, in, res)
    /\ UNCHANGED <<today, pc, range, metrics, player_register, loads, sweep, writers>>

-----------------------------------------------------------------------------
(* remove_old_data: three DELETEs and no commit.                           *)

\* Mutant: DELETE FROM <table> WHERE date <= ?
DeleteOlder_Inclusive(rows, cutoff_date) == {r \in rows : ~(r.date <= cutoff_date)}

\* DELETE FROM <table> WHERE date < ?
DeleteOlder(rows, cutoff_date) == {r \in rows : ~(r.date < cutoff_date)}

\* Mutant: the sweep forgets daily_pitching.
RemoveOldDataFrom_TwoTables(db, cutoff_date) ==
    [db EXCEPT !.daily_hitting = {r \in @ : ~(r.date < cutoff_date)},
               !.statcast_data = {r \in @ : ~(r.date < cutoff_date)}]

RemoveOldDataFrom(db, cutoff_date) ==
    [db EXCEPT !.daily_hitting = DeleteOlder(@, cutoff_date),
               !.daily_pitching = DeleteOlder(@, cutoff_date),
               !.statcast_data = DeleteOlder(@, cutoff_date)]

RemoveOldData ==
    /\ pc = "idle"
    /\ \E days_to_keep \in Windows :
        LET cutoff_date == today - days_to_keep
        IN /\ conn' = RemoveOldDataFrom(conn, cutoff_date)
           /\ last' = [op |-> "remove_old_data", days_to_keep |-> days_to_keep,
                       cutoff_date |-> cutoff_date]
    /\ UNCHANGED <<disk, today, pc, range, metrics, player_register, loads, sweep, writers>>

-----------------------------------------------------------------------------
(* remove_duplicate_data.                                                  *)

\* Mutant: the GROUP BY leaves the date out.
MinIdOfGroups_NoDate(rows) ==
    {Min({q.id : q \in {x \in rows : Tail(NaturalKey(x)) = Tail(NaturalKey(r))}}) :
        r \in rows}

\* Mutant: the subquery selects MAX(id).
MinIdOfGroups_Max(rows) ==
    {CHOOSE i \in {q.id : q \in {x \in rows : NaturalKey(x) = NaturalKey(r)}} :
        \A q \in rows : NaturalKey(q) = NaturalKey(r) => q.id <= i : r \in rows}

\* SELECT MIN(id) FROM statcast_data GROUP BY date, game_pk, pitcher_id,
\* batter_id, balls, strikes, pitch_type  (GROUP BY puts NULLs together)
MinIdOfGroups(rows) ==
    {Min({q.id : q \in {x \in rows : NaturalKey(x) = NaturalKey(r)}}) : r \in rows}

\* Mutant: DELETE FROM statcast_data WHERE id IN (...)
DeleteDuplicates_In(db) ==
    [db EXCEPT !.statcast_data = {r \in @ : r.id \notin MinIdOfGroups(db.statcast_data)}]

\* DELETE FROM statcast_data WHERE id NOT IN (...)
DeleteDuplicates(db) ==
    [db EXCEPT !.statcast_data = {r \in @ : r.id \in MinIdOfGroups(db.statcast_data)}]

\* The whole method on s = [conn, disk]; ret is its return value.
RemoveDuplicateDataOn(s) ==
    LET before_count == Cardinality(s.conn.statcast_data)
        cleaned == [s EXCEPT !.conn = DeleteDuplicates(@)]
        after_count == Cardinality(cleaned.conn.statcast_data)
        removed_count == before_count - after_count
    IN [s |-> IF removed_count > 0 THEN Commit(cleaned) ELSE cleaned,
        before_count |-> before_count, ret |-> removed_count]

\* A call records as previous what the call before it returned when that
\* was remove_duplicate_data too.
RemoveDuplicateData ==
    /\ pc = "idle"
    /\ LET res == RemoveDuplicateDataOn([conn |-> conn, disk |-> disk])
       IN /\ conn' = res.s.conn
          /\ disk' = res.s.disk
          /\ last' = [op |-> "remove_duplicate_data",
                      before_count |-> res.before_count, ret |-> res.ret,
                      previous |-> IF last.op = "remove_duplicate_data"
                                   THEN Some(last.ret) ELSE NULL]
    /\ UNCHANGED <<today, pc, range, metrics, player_register, loads, sweep, writers>>

-----------------------------------------------------------------------------
(* fetch_and_store_date_range: one action per pass of its while loop.      *)

NoRange == [start |-> 0, end |-> 0, cur |-> 0, log |-> <<>>]

\* Mutant: the loop stops before the end date.
LoopCondition_Exclusive(current_date, end_date) == current_date < end_date

\* while current_date <= end_date
LoopCondition(current_date, end_date) == current_date <= end_date

\* current_date += timedelta(days=1)
NextDate(current_date) == current_date + 1

RangeCall(escaped) ==
    [op |-> "fetch_and_store_date_range", start |-> range.start,
     end |-> range.end, log |-> range.log, escaped |-> escaped]

\* current_date = start_date.  Both callers (the __main__ of
\* database_manager.py and regenerate_database.py) call the method on a
\* manager they have just constructed.
RangeStart ==
    /\ pc = "idle"
    /\ last.op = "__init__"
    /\ \E start_date, end_date \in Dates :
        range' = [start |-> start_date, end |-> end_date, cur |-> start_date,
                  log |-> <<>>]
    /\ pc' = "range"
    /\ UNCHANGED <<conn, disk, today, last, metrics, player_register, loads, sweep, writers>>

\* while current_date <= end_date: fetch the day, step to the next day.
\* An exception that escaped the single-day fetch would end the loop.
RangeIter ==
    /\ pc = "range"
    /\ LoopCondition(range.cur, range.end)
    /\ \E in \in FetchInputs :
        /\ Fits(conn, in)
        /\ LET res == FetchAndStoreSingleDay([conn |-> conn, disk |-> disk],
                                             range.cur, in.frame, in.fault, today)
               logged == [range EXCEPT !.log = Append(@, range.cur)]
           IN /\ conn' = res.s.conn
              /\ disk' = res.s.disk
              /\ IF res.escaped
                 THEN /\ pc' = "idle"
                      /\ range' = NoRange
                      /\ last' = [RangeCall(TRUE) EXCEPT !.log = logged.log]
                 ELSE /\ pc' = "range"
                      /\ range' = [logged EXCEPT !.cur = NextDate(@)]
                      /\ last' = FetchCall(range.cur, in, res)
    /\ UNCHANGED <<today, metrics, player_register, loads, sweep, writers>>

\* the loop condition is false: the method returns
RangeExit ==
    /\ pc = "range"
    /\ ~LoopCondition(range.cur, range.end)
    /\ pc' = "idle"
    /\ range' = NoRange
    /\ last' = RangeCall(FALSE)
    /\ UNCHANGED <<conn, disk, today, metrics, player_register, loads, sweep, writers>>

-----------------------------------------------------------------------------
(* close() and a new MLBDatabaseManager on the same file: the open         *)
(* transaction is dropped, create_tables finds the tables and commits.     *)

Reopen ==
    /\ pc = "idle"
    /\ conn' = disk
    /\ last' = [op |-> "__init__"]
    /\ player_register' = NULL
    /\ loads' = 0
    /\ UNCHANGED <<disk, today, pc, range, metrics, sweep, writers>>

-----------------------------------------------------------------------------
Init ==
    /\ \E S \in {{}, Dates} : disk = LegacyStore(S)
    /\ conn = disk
    /\ today = Today
    /\ pc = "idle"
    /\ range = NoRange
    /\ last = [op |-> "__init__"]
    /\ metrics = <<>>
    /\ player_register = NULL
    /\ loads = 0
    /\ sweep = NoSweep
    /\ writers = NoWriters

Next ==
    \/ FetchSingleDay
    \/ RemoveOldData
    \/ RemoveDuplicateData
    \/ RangeStart
    \/ RangeIter
    \/ RangeExit
    \/ Reopen

Spec == Init /\ [][Next]_vars

\* The range loop is running code: a pass that can run does run.
FairSpec == Spec /\ WF_vars(RangeIter) /\ WF_vars(RangeExit)

-----------------------------------------------------------------------------
(* The barrel flag over a grid of launch speeds and angles: the fetch      *)
(* driver stores one-pitch frames, the scraper derives its metrics from    *)
(* them.  The two share no state, so a behaviour runs one or the other.    *)

LaunchSpeeds == {NULL, Some(90), Some(97), Some(98), Some(99)}
LaunchAngles == {NULL, Some(25), Some(26), Some(28), Some(30), Some(31), Some(40)}

BarrelFrames ==
    {<<Pitch(1, "543037", "592450", 0, 0, "FF", v, a)>> :
        v \in LaunchSpeeds, a \in LaunchAngles}

FetchBarrelDay ==
    /\ pc = "idle"
    /\ metrics = <<>>
    /\ \E date \in Dates, frame \in BarrelFrames :
        LET in == [frame |-> frame, fault |-> "none"]
            res == FetchAndStoreSingleDay([conn |-> conn, disk |-> disk],
                                          date, frame, "none", today)
        IN /\ Fits(conn, in)
           /\ conn' = res.s.conn
           /\ disk' = res.s.disk
           /\ last' = FetchCall(date, in, res)
    /\ UNCHANGED <<today, pc, range, metrics, player_register, loads, sweep, writers>>

ScrapeMetrics ==
    /\ conn.seq_updates = 0
    /\ \E statcast_df \in BarrelFrames \cup {<<>>} :
        metrics' = CalculateAdvancedMetrics(statcast_df)
    /\ UNCHANGED <<conn, disk, today, pc, range, last, player_register, loads, sweep, writers>>

NextBarrel ==
    \/ FetchBarrelDay
    \/ ScrapeMetrics

SpecBarrel == Init /\ [][NextBarrel]_vars

-----------------------------------------------------------------------------
(* The scripts: daily_update.py and regenerate_database.py.  Each opens a  *)
(* manager of its own on the database file and closes it at the end; a     *)
(* behaviour of SpecJobs is one run of one script on a store that earlier  *)
(* runs have filled.                                                       *)

\* db.remove_old_data(days_to_keep=45)
DaysToKeep == 45

\* start_date = end_date - timedelta(days=44)
DaysBack == 44

\* A regeneration of the model has at most MaxRegenWrites days that write
\* the ledger; its other days are empty.
MaxRegenWrites == 1

\* The day the script runs, and the cutoff of its sweep.
RunDay == DaysToKeep + 3
CutoffDay == RunDay - DaysToKeep

\* The file after a fetch of date, on day now, that stored the frame.
Stored(db, date, frame, now) ==
    FetchAndStoreSingleDay([conn |-> db, disk |-> db], date, frame, "none", now).s.disk

\* A store with pitch events and daily lines from before the cutoff, from
\* the day of the cutoff and from two days ago, and a store that was
\* filled two days ago only.
KeptStore ==
    Stored(Stored(Stored(LegacyStore({CutoffDay - 2, CutoffDay}),
                         CutoffDay - 2, <<Slider>>, CutoffDay - 1),
                  CutoffDay, <<First, Foul>>, CutoffDay + 1),
           RunDay - 2, <<NextBatter, First>>, RunDay - 1)
RecentStore == Stored(EmptyStore, RunDay - 2, <<Slider>>, RunDay - 1)
JobStores == {EmptyStore, RecentStore, KeptStore}

\* daily_update(): a new manager, the fetch of yesterday, the sweep, the
\* verification query, close() (which drops the open transaction), return 0.
DailyUpdate ==
    /\ pc = "idle"
    /\ last.op = "__init__"
    /\ \E in \in FetchInputs :
        LET yesterday == today - 1
            res == FetchAndStoreSingleDay([conn |-> disk, disk |-> disk],
                                          yesterday, in.frame, in.fault, today)
            swept == RemoveOldDataFrom(res.s.conn, today - DaysToKeep)
            result == [oldest |-> IF swept.statcast_data = {} THEN NULL
                                  ELSE Some(Min({r.date : r \in swept.statcast_data})),
                       total |-> Cardinality(swept.statcast_data)]
        IN /\ conn' = res.s.disk
           /\ disk' = res.s.disk
           /\ last' = [op |-> "daily_update", yesterday |-> yesterday,
                       frame |-> in.frame, fault |-> in.fault,
                       cutoff_date |-> today - DaysToKeep,
                       result |-> result, ret |-> 0]
    /\ UNCHANGED <<today, pc, range, metrics, player_register, loads, sweep, writers>>

\* Mutant: the ledger is not cleared.
ClearAll_KeepLedger(db) ==
    [db EXCEPT !.statcast_data = {}, !.daily_hitting = {}, !.daily_pitching = {}]

\* The four DELETEs of regenerate_database.main
ClearAll(db) ==
    [db EXCEPT !.statcast_data = {}, !.daily_hitting = {},
               !.daily_pitching = {}, !.data_updates = {}]

\* What the days of a regeneration meet.
RegenInputs ==
    {[frame |-> <<>>, fault |-> "none"],
     [frame |-> <<Slider>>, fault |-> "none"],
     [frame |-> <<>>, fault |-> "remote"]}

\* main(): the date range, a new manager, the four DELETEs and the commit,
\* up to the call of fetch_and_store_date_range.
RegenClear ==
    /\ pc = "idle"
    /\ last.op = "__init__"
    /\ LET end_date == today - 1
           start_date == end_date - DaysBack
           s == Commit([conn |-> ClearAll(disk), disk |-> disk])
       IN /\ conn' = s.conn
          /\ disk' = s.disk
          /\ range' = [start |-> start_date, end |-> end_date,
                       cur |-> start_date, log |-> <<>>]
    /\ pc' = "regenerate"
    /\ UNCHANGED <<today, last, metrics, player_register, loads, sweep, writers>>

\* One pass of the loop of fetch_and_store_date_range, called by main.
RegenIter ==
    /\ pc = "regenerate"
    /\ LoopCondition(range.cur, range.end)
    /\ \E in \in RegenInputs :
        /\ \/ in.frame = <<>> /\ in.fault = "none"
           \/ Cardinality(conn.data_updates) + 1 <= MaxRegenWrites
        /\ LET res == FetchAndStoreSingleDay([conn |-> conn, disk |-> disk],
                                             range.cur, in.frame, in.fault, today)
           IN /\ conn' = res.s.conn
              /\ disk' = res.s.disk
              /\ last' = FetchCall(range.cur, in, res)
    /\ range' = [range EXCEPT !.log = Append(@, range.cur), !.cur = NextDate(@)]
    /\ UNCHANGED <<today, pc, metrics, player_register, loads, sweep, writers>>

\* The loop ends; main runs its verification query and closes the manager.
RegenExit ==
    /\ pc = "regenerate"
    /\ ~LoopCondition(range.cur, range.end)
    /\ conn' = disk
    /\ pc' = "idle"
    /\ range' = NoRange
    /\ last' = [op |-> "regenerate_database", start |-> range.start,
                end |-> range.end, log |-> range.log]
    /\ UNCHANGED <<disk, today, metrics, player_register, loads, sweep, writers>>

InitJobs ==
    /\ disk \in JobStores
    /\ conn = disk
    /\ today = RunDay
    /\ pc = "idle"
    /\ range = NoRange
    /\ last = [op |-> "__init__"]
    /\ metrics = <<>>
    /\ player_register = NULL
    /\ loads = 0
    /\ sweep = NoSweep
    /\ writers = NoWriters

NextJobs ==
    \/ DailyUpdate
    \/ RegenClear
    \/ RegenIter
    \/ RegenExit

SpecJobs == InitJobs /\ [][NextJobs]_vars

-----------------------------------------------------------------------------
(* The player directory and the lookups.  A name is the text the caller    *)
(* passes together with its pieces between commas, text.split(',');        *)
(* name_first is the sequence of the pieces after the first comma, as      *)
(* split(',', 1) joins them again.                                         *)

\* A manager of the model calls pyb.chadwick_register() at most MaxLoads
\* times.
MaxLoads == 2

Name(text, pieces) == [text |-> text, pieces |-> pieces]

Names ==
    {Name("Cole, Gerrit", <<"Cole", " Gerrit">>),
     Name("Cole,Gerrit", <<"Cole", "Gerrit">>),
     Name("Gerrit Cole", <<"Gerrit Cole">>),
     Name("Cole", <<"Cole">>),
     Name("Doe, Jane", <<"Doe", " Jane">>),
     Name("Ruth, Babe", <<"Ruth", " Babe">>),
     Name("Judge, Aaron", <<"Judge", " Aaron">>),
     Name("Smith, Will", <<"Smith", " Will">>),
     Name("Cole, Gerrit, Jr.", <<"Cole", " Gerrit", " Jr.">>)}

\* str.strip() on the pieces of the names
Strip(piece) ==
    CASE piece = " Gerrit" -> "Gerrit"
      [] piece = " Jane" -> "Jane"
      [] piece = " Babe" -> "Babe"
      [] piece = " Aaron" -> "Aaron"
      [] piece = " Will" -> "Will"
      [] OTHER -> piece

\* int(player_id): the integer, or NULL for ValueError
ToInt(player_id) ==
    CASE player_id = "543037" -> Some(543037)
      [] player_id = "592450" -> Some(592450)
      [] player_id = "660271" -> Some(660271)
      [] player_id = "669257" -> Some(669257)
      [] player_id = "519293" -> Some(519293)
      [] player_id = "121578" -> Some(121578)
      [] player_id = "999999" -> Some(999999)
      [] OTHER -> NULL

\* str(player_id)
ToStr(player_id) ==
    CASE player_id = 543037 -> "543037"
      [] player_id = 592450 -> "592450"
      [] player_id = 660271 -> "660271"
      [] player_id = 669257 -> "669257"
      [] player_id = 519293 -> "519293"
      [] player_id = 121578 -> "121578"
      [] OTHER -> "999999"

PlayerIds == {"543037", "592450", "669257", "519293", "999999", "n/a"}

Person(key_mlbam, name_last, name_first, mlb_played_last) ==
    [key_mlbam |-> key_mlbam, name_last |-> name_last,
     name_first |-> name_first, mlb_played_last |-> mlb_played_last]

\* What pyb.chadwick_register() answers: the register, with two recent
\* players of one name, or one without a single recent player.
Chadwick ==
    << Person(NULL, "Cole", <<"Gerrit">>, NULL),
       Person(Some(121578), "Ruth", <<"Babe">>, Some(1935)),
       Person(Some(543037), "Cole", <<"Gerrit">>, Some(2024)),
       Person(Some(592450), "Judge", <<"Aaron">>, Some(2024)),
       Person(Some(669257), "Smith", <<"Will">>, Some(2024)),
       Person(Some(519293), "Smith", <<"Will">>, Some(2023)) >>
Registers == {Chadwick, SubSeq(Chadwick, 1, 2)}

\* key_mlbam.notna() & (mlb_played_last >= 2020)
IsRecent(person) == person.key_mlbam # NULL /\ Ge(person.mlb_played_last, 2020)

\* Mutant: the register is loaded again when it is empty (if not ...).
NeedsLoad_WhenEmpty(register) == register = NULL \/ register = Some(<<>>)

\* if self.player_register is None
NeedsLoad(register) == register = NULL

\* load_player_register(): answer is what the remote register answers,
\* NULL when the call raises.  The result says what self.player_register
\* is afterwards, whether the remote register was called and whether the
\* exception escaped.
LoadPlayerRegister(register, answer) ==
    IF NeedsLoad(register)
    THEN IF answer = NULL
         THEN [register |-> register, called |-> TRUE, raised |-> TRUE]
         ELSE [register |-> Some(SelectSeq(answer[1], IsRecent)),
               called |-> TRUE, raised |-> FALSE]
    ELSE [register |-> register, called |-> FALSE, raised |-> FALSE]

\* Mutant: a name without a comma is taken as "First Last".
SplitName_Lenient(player_name) ==
    IF Len(player_name.pieces) > 1
    THEN Some([last_name |-> Strip(player_name.pieces[1]),
               first_name |-> [i \in 1..(Len(player_name.pieces) - 1) |->
                                 IF i = 1 THEN Strip(player_name.pieces[2])
                                 ELSE player_name.pieces[i + 1]]])
    ELSE IF player_name.text = "Gerrit Cole"
    THEN Some([last_name |-> "Cole", first_name |-> <<"Gerrit">>])
    ELSE NULL

\* if ',' in player_name: split(',', 1) and strip; NULL for return None
SplitName(player_name) ==
    IF Len(player_name.pieces) > 1
    THEN Some([last_name |-> Strip(player_name.pieces[1]),
               first_name |-> [i \in 1..(Len(player_name.pieces) - 1) |->
                                 IF i = 1 THEN Strip(player_name.pieces[2])
                                 ELSE player_name.pieces[i + 1]]])
    ELSE NULL

\* Mutant: the last entry of the name is taken (iloc[-1]).
PlayerIdFromName_LastMatch(register, player_name) ==
    LET split == SplitName(player_name)
    IN IF split = NULL THEN NULL
       ELSE LET player_row ==
                  SelectSeq(register,
                            LAMBDA person : /\ person.name_last = split[1].last_name
                                            /\ person.name_first = split[1].first_name)
            IN IF player_row # <<>> THEN player_row[Len(player_row)].key_mlbam ELSE NULL

\* get_player_id_from_name, after the register is loaded
PlayerIdFromName(register, player_name) ==
    LET split == SplitName(player_name)
    IN IF split = NULL THEN NULL
       ELSE LET player_row ==
                  SelectSeq(register,
                            LAMBDA person : /\ person.name_last = split[1].last_name
                                            /\ person.name_first = split[1].first_name)
            IN IF player_row # <<>> THEN player_row[1].key_mlbam ELSE NULL

\* f"{last_name}, {first_name}": the text and its pieces between commas
FormatName(last_name, first_name) ==
    CASE last_name = "Cole" /\ first_name = <<"Gerrit">> ->
            Name("Cole, Gerrit", <<"Cole", " Gerrit">>)
      [] last_name = "Judge" /\ first_name = <<"Aaron">> ->
            Name("Judge, Aaron", <<"Judge", " Aaron">>)
      [] last_name = "Smith" /\ first_name = <<"Will">> ->
            Name("Smith, Will", <<"Smith", " Will">>)
      [] last_name = "Ruth" /\ first_name = <<"Babe">> ->
            Name("Ruth, Babe", <<"Ruth", " Babe">>)
      [] OTHER -> Name("Doe, Jane", <<"Doe", " Jane">>)

\* get_player_name_from_id, after the register is loaded: the name
\* "Last, First" of the first entry with the id, or NULL
PlayerNameFromId(register, player_id) ==
    IF ToInt(player_id) = NULL THEN NULL
    ELSE LET player_row ==
               SelectSeq(register, LAMBDA person : person.key_mlbam = ToInt(player_id))
         IN IF player_row # <<>>
            THEN Some(FormatName(player_row[1].name_last, player_row[1].name_first))
            ELSE NULL

\* Mutant: the end date is left out of the window.
DateBetween_Exclusive(r, start_date, end_date) ==
    start_date <= r.date /\ r.date < end_date

\* date BETWEEN ? AND ?
DateBetween(r, start_date, end_date) == start_date <= r.date /\ r.date <= end_date

\* The three queries of get_player_data, as the sets of the rows they
\* select.
PlayerData(db, player_name, player_id, start_date, end_date) ==
    [hitting |-> {r \in db.daily_hitting :
                    r.player_name = player_name.text
                    /\ DateBetween(r, start_date, end_date)},
     pitching |-> {r \in db.daily_pitching :
                    r.player_name = player_name.text
                    /\ DateBetween(r, start_date, end_date)},
     statcast |-> {r \in db.statcast_data :
                    /\ IF player_id # NULL /\ player_id[1] # 0
                       THEN \/ r.player_name = player_name.text
                            \/ r.batter = ToStr(player_id[1])
                            \/ r.pitcher = ToStr(player_id[1])
                       ELSE r.player_name = player_name.text
                    /\ DateBetween(r, start_date, end_date)}]

\* The answers of the remote register to a lookup that calls it: a
\* register, or NULL when the call raises.
Answers == {Some(register) : register \in Registers} \cup {NULL}

\* A lookup starts with load_player_register(); the model lets the remote
\* register be called only while the manager has calls left.
CanLoad == ~NeedsLoad(player_register) \/ loads < MaxLoads

Loaded(answer) == LoadPlayerRegister(player_register, answer)

LookupCall(op, arg, loaded, ret) ==
    [op |-> op, arg |-> arg, called |-> loaded.called, raised |-> loaded.raised,
     ret |-> ret]

GetPlayerIdFromName ==
    /\ pc = "idle"
    /\ CanLoad
    /\ \E player_name \in Names, answer \in Answers :
        LET loaded == Loaded(answer)
        IN /\ player_register' = loaded.register
           /\ loads' = loads + (IF loaded.called THEN 1 ELSE 0)
           /\ last' = LookupCall("get_player_id_from_name", player_name, loaded,
                                 IF loaded.raised THEN NULL
                                 ELSE PlayerIdFromName(loaded.register[1], player_name))
    /\ UNCHANGED <<conn, disk, today, pc, range, metrics, sweep, writers>>

GetPlayerNameFromId ==
    /\ pc = "idle"
    /\ CanLoad
    /\ \E player_id \in PlayerIds, answer \in Answers :
        LET loaded == Loaded(answer)
        IN /\ player_register' = loaded.register
           /\ loads' = loads + (IF loaded.called THEN 1 ELSE 0)
           /\ last' = LookupCall("get_player_name_from_id", Name(player_id, <<player_id>>),
                                 loaded,
                                 IF loaded.raised THEN NULL
                                 ELSE PlayerNameFromId(loaded.register[1], player_id))
    /\ UNCHANGED <<conn, disk, today, pc, range, metrics, sweep, writers>>

\* ORDER BY date DESC: the orders in which a query may return the rows
\* S it selects (the order within one date is the engine's).
OrderByDateDesc(S) ==
    {rows \in [1..Cardinality(S) -> S] :
        /\ \A i, j \in 1..Cardinality(S) : i # j => rows[i] # rows[j]
        /\ \A i, j \in 1..Cardinality(S) : i < j => rows[i].date >= rows[j].date}

\* The start_date and end_date a caller passes: a date, or NULL for None.
DateArguments == {NULL} \cup {Some(d) : d \in Dates}

\* get_player_data(player_name, start_date, end_date); a date that is
\* None becomes 45 days ago, or today
GetPlayerData ==
    /\ pc = "idle"
    /\ CanLoad
    /\ \E player_name \in Names, answer \in Answers,
          start \in DateArguments, end \in DateArguments :
        LET loaded == Loaded(answer)
            start_date == IF start = NULL THEN today - 45 ELSE start[1]
            end_date == IF end = NULL THEN today ELSE end[1]
            data == PlayerData(conn, player_name,
                               PlayerIdFromName(loaded.register[1], player_name),
                               start_date, end_date)
            call == [op |-> "get_player_data", arg |-> player_name,
                     called |-> loaded.called, raised |-> loaded.raised,
                     start_date |-> start_date, end_date |-> end_date, ret |-> NULL]
        IN /\ player_register' = loaded.register
           /\ loads' = loads + (IF loaded.called THEN 1 ELSE 0)
           /\ IF loaded.raised
              THEN last' = call
              ELSE \E hitting \in OrderByDateDesc(data.hitting),
                      pitching \in OrderByDateDesc(data.pitching),
                      statcast \in OrderByDateDesc(data.statcast) :
                    last' = [call EXCEPT !.ret = Some([hitting |-> hitting,
                                                       pitching |-> pitching,
                                                       statcast |-> statcast])]
    /\ UNCHANGED <<conn, disk, today, pc, range, metrics, sweep, writers>>

\* get_player_id_from_name(get_player_name_from_id(player_id)) of a
\* manager whose directory is loaded: the name and the id returned
IdOfNameOfId ==
    /\ pc = "idle"
    /\ ~NeedsLoad(player_register)
    /\ \E player_id \in PlayerIds :
        LET name == PlayerNameFromId(player_register[1], player_id)
        IN /\ name # NULL
           /\ last' = [op |-> "id_of_name_of_id", arg |-> player_id, name |-> name[1],
                       ret |-> PlayerIdFromName(player_register[1], name[1])]
    /\ UNCHANGED <<conn, disk, today, pc, range, metrics, player_register, loads,
                   sweep, writers>>

\* get_player_name_from_id(get_player_id_from_name(player_name)) of a
\* manager whose directory is loaded; int(None) raises TypeError and the
\* name is None then
NameOfIdOfName ==
    /\ pc = "idle"
    /\ ~NeedsLoad(player_register)
    /\ \E player_name \in Names :
        LET player_id == PlayerIdFromName(player_register[1], player_name)
        IN last' = [op |-> "name_of_id_of_name", arg |-> player_name, id |-> player_id,
                    ret |-> IF player_id = NULL THEN NULL
                            ELSE PlayerNameFromId(player_register[1],
                                                  ToStr(player_id[1]))]
    /\ UNCHANGED <<conn, disk, today, pc, range, metrics, player_register, loads,
                   sweep, writers>>

\* The order of two names as strings, by the place of the name among the
\* names of the model in that order.
NameRank(name) ==
    CASE name = "Cole, Gerrit" -> 1
      [] name = "Doe, Jane" -> 2
      [] name = "Judge, Aaron" -> 3
      [] name = "Ruth, Babe" -> 4
      [] name = "Smith, Will" -> 5
      [] OTHER -> 6

\* sorted(available_players, key=lambda x: x['name']): a stable sort
RECURSIVE SortedByName(_)
SortedByName(available_players) ==
    IF available_players = <<>> THEN <<>>
    ELSE LET least == Min({NameRank(available_players[i].name) :
                             i \in DOMAIN available_players})
             k == Min({i \in DOMAIN available_players :
                         NameRank(available_players[i].name) = least})
         IN <<available_players[k]>>
                \o SortedByName(SubSeq(available_players, 1, k - 1)
                                  \o SubSeq(available_players, k + 1,
                                            Len(available_players)))

\* for batter_id in batters_df['batter']: the named ones are hitters
RECURSIVE AddBatters(_, _, _)
AddBatters(register, batters, available_players) ==
    IF batters = <<>> THEN available_players
    ELSE LET name == PlayerNameFromId(register, Head(batters))
         IN AddBatters(register, Tail(batters),
                       IF name # NULL
                       THEN Append(available_players,
                                   [name |-> name[1].text, type |-> "hitter",
                                    id |-> Head(batters)])
                       ELSE available_players)

\* for pitcher_id in pitchers_df['pitcher']: a named one whose name is
\* already in the list turns the first entry of that name into a two-way
\* player, any other named one is a pitcher
RECURSIVE AddPitchers(_, _, _)
AddPitchers(register, pitchers, available_players) ==
    IF pitchers = <<>> THEN available_players
    ELSE LET name == PlayerNameFromId(register, Head(pitchers))
             existing == {i \in DOMAIN available_players :
                            name # NULL /\ available_players[i].name = name[1].text}
         IN AddPitchers(register, Tail(pitchers),
                        IF name = NULL THEN available_players
                        ELSE IF existing # {}
                        THEN [available_players EXCEPT ![Min(existing)].type = "two-way"]
                        ELSE Append(available_players,
                                    [name |-> name[1].text, type |-> "pitcher",
                                     id |-> Head(pitchers)]))

\* SELECT DISTINCT batter ... WHERE batter IS NOT NULL, and the same for
\* pitcher (every pitch event of the model has both): the values, and
\* the orders a query may return them in
DistinctBatters(db) == {r.batter : r \in db.statcast_data}

DistinctPitchers(db) == {r.pitcher : r \in db.statcast_data}

AnyOrder(S) ==
    {ids \in [1..Cardinality(S) -> S] :
        \A i, j \in 1..Cardinality(S) : i # j => ids[i] # ids[j]}

\* get_all_available_players, after the register is loaded
AllAvailablePlayers(register, batters, pitchers) ==
    SortedByName(AddPitchers(register, pitchers, AddBatters(register, batters, <<>>)))

GetAllAvailablePlayers ==
    /\ pc = "idle"
    /\ CanLoad
    /\ \E answer \in Answers :
        LET loaded == Loaded(answer)
            call == [op |-> "get_all_available_players", called |-> loaded.called,
                     raised |-> loaded.raised, ret |-> NULL]
        IN /\ player_register' = loaded.register
           /\ loads' = loads + (IF loaded.called THEN 1 ELSE 0)
           /\ IF loaded.raised
              THEN last' = call
              ELSE \E batters \in AnyOrder(DistinctBatters(conn)),
                      pitchers \in AnyOrder(DistinctPitchers(conn)) :
                    last' = [call EXCEPT
                               !.ret = Some(AllAvailablePlayers(loaded.register[1],
                                                                batters, pitchers))]
    /\ UNCHANGED <<conn, disk, today, pc, range, metrics, sweep, writers>>

\* A position player on the mound against the pitcher of the other
\* events, and a pitcher against a batter of his own name.
Mound ==
    [Pitch(1, "592450", "543037", 0, 0, "FF", Some(98), Some(30))
        EXCEPT !.player_name = "Judge, Aaron"]
Namesakes ==
    [Pitch(1, "519293", "669257", 0, 0, "FF", Some(98), Some(30))
        EXCEPT !.player_name = "Smith, Will"]

\* The stores the lookups read: empty, or with the daily lines and the
\* pitch events of two days.
LookupStores ==
    {EmptyStore,
     Stored(Stored(LegacyStore(Dates), 1, <<First, Foul>>, 1), 2, <<NextBatter, First>>, 2),
     Stored(Stored(LegacyStore(Dates), 1, <<First, Foul>>, 1), 2, <<Mound, NextBatter>>, 2),
     Stored(Stored(LegacyStore(Dates), 1, <<First, Foul>>, 1), 2, <<Namesakes>>, 2)}

InitLookup ==
    /\ disk \in LookupStores
    /\ conn = disk
    /\ today = Today
    /\ pc = "idle"
    /\ range = NoRange
    /\ last = [op |-> "__init__"]
    /\ metrics = <<>>
    /\ player_register = NULL
    /\ loads = 0
    /\ sweep = NoSweep
    /\ writers = NoWriters

NextLookup ==
    \/ GetPlayerIdFromName
    \/ GetPlayerNameFromId
    \/ GetPlayerData
    \/ IdOfNameOfId
    \/ NameOfIdOfName
    \/ GetAllAvailablePlayers
    \/ Reopen

SpecLookup == InitLookup /\ [][NextLookup]_vars

-----------------------------------------------------------------------------
(* The process stops inside fetch_and_store_date_range: between two        *)
(* passes or in the remote call, after the DELETE of the day and its       *)
(* commit, or after to_sql and its commit.  What the file holds then is    *)
(* what the statements before that point have committed.                   *)

CrashPoints == {"remote", "delete", "insert"}

\* The file when fetch_and_store_single_day stops at the point.
StoppedAt(s, date, statcast_data, point) ==
    IF point = "remote" \/ statcast_data = <<>>
    THEN s.disk
    ELSE LET subset == StatcastSubset(statcast_data, date)
             existing_count == ExistingCount(s.conn, date)
             deleted == IF existing_count > 0
                        THEN Commit([s EXCEPT !.conn = DeleteDay(@, date)])
                        ELSE s
         IN IF point = "delete"
            THEN deleted.disk
            ELSE Commit([deleted EXCEPT !.conn = Appended(@, subset)]).disk

CrashInRange ==
    /\ pc = "range"
    /\ \E statcast_data \in Frames, point \in CrashPoints :
        /\ point # "remote" => LoopCondition(range.cur, range.end)
        /\ LET file == StoppedAt([conn |-> conn, disk |-> disk], range.cur,
                                 statcast_data, point)
           IN /\ disk' = file
              /\ conn' = file
              /\ last' = [op |-> "crash", point |-> point, date |-> range.cur,
                          log |-> range.log]
    /\ pc' = "stopped"
    /\ UNCHANGED <<today, range, metrics, player_register, loads, sweep, writers>>

NextCrash ==
    \/ FetchSingleDay
    \/ Reopen
    \/ RangeStart
    \/ RangeIter
    \/ RangeExit
    \/ CrashInRange

SpecCrash == Init /\ [][NextCrash]_vars

-----------------------------------------------------------------------------
(* remove_old_data statement by statement, and the process stopping        *)
(* between two of its DELETEs.  The sqlite3 module opens a transaction     *)
(* before the first DELETE; nothing in remove_old_data ends it.            *)

\* The tables of the DELETEs of lines 333, 334 and 335, in their order.
SweepTables == <<"daily_hitting", "daily_pitching", "statcast_data">>

\* Mutant: the connection is in autocommit mode, each DELETE is durable.
SweepStatement_Autocommit(s, k, cutoff_date) ==
    Commit([s EXCEPT !.conn[SweepTables[k]] = DeleteOlder(@, cutoff_date)])

\* The k-th DELETE of remove_old_data, on the connection
SweepStatement(s, k, cutoff_date) ==
    [s EXCEPT !.conn[SweepTables[k]] = DeleteOlder(@, cutoff_date)]

\* cutoff_date = ...; cursor = self.conn.cursor()
SweepBegin ==
    /\ pc = "idle"
    /\ \E days_to_keep \in Windows :
        sweep' = [cutoff_date |-> today - days_to_keep, done |-> 0]
    /\ pc' = "sweep"
    /\ UNCHANGED <<conn, disk, today, range, last, metrics, player_register, loads,
                   writers>>

\* cursor.execute('DELETE FROM ... WHERE date < ?', (cutoff_date,))
SweepDelete ==
    /\ pc = "sweep"
    /\ sweep.done < Len(SweepTables)
    /\ LET s == SweepStatement([conn |-> conn, disk |-> disk], sweep.done + 1,
                               sweep.cutoff_date)
       IN conn' = s.conn /\ disk' = s.disk
    /\ sweep' = [sweep EXCEPT !.done = @ + 1]
    /\ UNCHANGED <<today, pc, range, last, metrics, player_register, loads, writers>>

\* remove_old_data returns
SweepReturn ==
    /\ pc = "sweep"
    /\ sweep.done = Len(SweepTables)
    /\ pc' = "idle"
    /\ sweep' = NoSweep
    /\ last' = [op |-> "remove_old_data", days_to_keep |-> today - sweep.cutoff_date,
                cutoff_date |-> sweep.cutoff_date]
    /\ UNCHANGED <<conn, disk, today, range, metrics, player_register, loads, writers>>

\* The process stops inside remove_old_data: the open transaction is lost.
CrashInSweep ==
    /\ pc = "sweep"
    /\ conn' = disk
    /\ pc' = "stopped"
    /\ last' = [op |-> "crash", done |-> sweep.done, cutoff_date |-> sweep.cutoff_date]
    /\ UNCHANGED <<disk, today, range, sweep, metrics, player_register, loads, writers>>

NextSweep ==
    \/ FetchSingleDay
    \/ Reopen
    \/ SweepBegin
    \/ SweepDelete
    \/ SweepReturn
    \/ CrashInSweep

SpecSweep == Init /\ [][NextSweep]_vars

-----------------------------------------------------------------------------
(* Two processes, each with a manager of its own on the same file, run     *)
(* fetch_and_store_single_day for the same date.  A process holds no       *)
(* transaction open between two of its steps (the SELECT reads the file,   *)
(* the DELETE is committed at line 289, to_sql commits its INSERTs, the    *)
(* ledger INSERT is committed at line 302), and SQLite lets one write      *)
(* transaction run at a time, so each step acts on the file as a whole.    *)

Procs == {1, 2}

Writer(at, date, frame, existing_count, first_id) ==
    [at |-> at, date |-> date, frame |-> frame, existing_count |-> existing_count,
     first_id |-> first_id]

\* The file on which two processes meet: without pitch events, or with
\* those of an earlier fetch of the second date.
WriterStores == {LegacyStore(Dates), Stored(LegacyStore(Dates), Today, <<Slider>>, Today)}

\* Both processes are at the remote call, which will answer each a frame
\* with rows.
WritersStart ==
    /\ pc = "idle"
    /\ last.op = "__init__"
    /\ \E date \in Dates, f1, f2 \in Frames \ {<<>>} :
        writers' = << Writer("count", date, f1, NULL, NULL),
                      Writer("count", date, f2, NULL, NULL) >>
    /\ pc' = "concurrent"
    /\ UNCHANGED <<conn, disk, today, range, last, metrics, player_register, loads,
                   sweep>>

\* SELECT COUNT(*) FROM statcast_data WHERE date = ?
WriterCount(p) ==
    /\ pc = "concurrent"
    /\ writers[p].at = "count"
    /\ LET existing_count == ExistingCount(disk, writers[p].date)
       IN writers' = [writers EXCEPT ![p].existing_count = Some(existing_count),
                                     ![p].at = IF existing_count > 0 THEN "delete"
                                               ELSE "insert"]
    /\ UNCHANGED <<conn, disk, today, pc, range, last, metrics, player_register,
                   loads, sweep>>

\* DELETE FROM statcast_data WHERE date = ?; commit
WriterDelete(p) ==
    /\ pc = "concurrent"
    /\ writers[p].at = "delete"
    /\ disk' = DeleteDay(disk, writers[p].date)
    /\ writers' = [writers EXCEPT ![p].at = "insert"]
    /\ UNCHANGED <<conn, today, pc, range, last, metrics, player_register, loads,
                   sweep>>

\* to_sql: the INSERTs and their commit, or the rollback and the handler
WriterInsert(p) ==
    /\ pc = "concurrent"
    /\ writers[p].at = "insert"
    /\ LET w == writers[p]
           inserted == Appended(disk, StatcastSubset(w.frame, w.date))
       IN IF UniqueConflict(inserted.statcast_data)
          THEN /\ disk' = ExceptHandler([conn |-> disk, disk |-> disk], w.date,
                                        "insert", today).disk
               /\ writers' = [writers EXCEPT ![p].at = "done"]
          ELSE /\ disk' = inserted
               /\ writers' = [writers EXCEPT ![p].at = "ledger",
                                             ![p].first_id = Some(disk.seq_statcast + 1)]
    /\ UNCHANGED <<conn, today, pc, range, last, metrics, player_register, loads,
                   sweep>>

\* INSERT OR REPLACE INTO data_updates ...; commit
WriterLedger(p) ==
    /\ pc = "concurrent"
    /\ writers[p].at = "ledger"
    /\ disk' = InsertOrReplaceUpdate(disk, today, writers[p].date,
                                     Len(writers[p].frame), SuccessStatus)
    /\ writers' = [writers EXCEPT ![p].at = "done"]
    /\ UNCHANGED <<conn, today, pc, range, last, metrics, player_register, loads,
                   sweep>>

InitWriters ==
    /\ disk \in WriterStores
    /\ conn = disk
    /\ today = Today
    /\ pc = "idle"
    /\ range = NoRange
    /\ last = [op |-> "__init__"]
    /\ metrics = <<>>
    /\ player_register = NULL
    /\ loads = 0
    /\ sweep = NoSweep
    /\ writers = NoWriters

NextWriters ==
    \/ WritersStart
    \/ \E p \in Procs : WriterCount(p)
    \/ \E p \in Procs : WriterDelete(p)
    \/ \E p \in Procs : WriterInsert(p)
    \/ \E p \in Procs : WriterLedger(p)

SpecWriters == InitWriters /\ [][NextWriters]_vars

-----------------------------------------------------------------------------
(* Vocabulary of the properties.                                           *)

\* The pitch events of date d in store db.
RowsOn(db, d) == {r \in db.statcast_data : r.date = d}

\* A row without its surrogate id.
Content(r) == [c \in StatcastTable \ {"id"} |-> r[c]]

\* The pitch events of date d in id order, without their ids.
DayContent(db, d) ==
    LET ids == SortedIds({r.id : r \in RowsOn(db, d)})
    IN [i \in DOMAIN ids |-> Content(CHOOSE r \in RowsOn(db, d) : r.id = ids[i])]

\* Row r stores the pitch event p of the remote source for date d.
Stores(r, p, d) ==
    /\ r.date = d
    /\ \A c \in {"game_pk", "pitcher", "batter", "balls", "strikes",
                 "pitch_type", "player_name", "launch_speed", "launch_angle"} :
          r[c] = p[c]

\* The ledger rows of date d.
UpdatesOn(db, d) == {u \in db.data_updates : u.data_date = d}

IsErrorStatus(status) == Head(status) = "error: "

\* The step is a call of fetch_and_store_single_day (alone or as one pass
\* of the range loop), described by last'.
FetchStep == last'.op = "fetch_and_store_single_day" /\ pc' = pc

\* The step is a call of remove_duplicate_data, described by last'.
DedupStep == last'.op = "remove_duplicate_data"

-----------------------------------------------------------------------------
\* C1: a successful fetch of date d that directly follows a successful
\* fetch of d answered the same non-empty frame leaves the pitch events of
\* d as they were after the first: the same number of rows, the same
\* content in the same order.
C1_IdempotentReload ==
    [][(FetchStep /\ last'.outcome = "success" /\ last'.again)
        => /\ Cardinality(RowsOn(conn', last'.date)) = Cardinality(RowsOn(conn, last'.date))
           /\ DayContent(conn', last'.date) = DayContent(conn, last'.date)]_vars

\* A second fetch of a date with the same two-pitch frame has returned.
C1_Witness ==
    /\ last.op = "fetch_and_store_single_day"
    /\ last.outcome = "success"
    /\ last.again
    /\ Len(last.frame) = 2

\* C10: a successful fetch of a date that already has pitch events leaves
\* for that date exactly the fetched events, in the order fetched, and none
\* of the rows the date had before.
C10_WholeDayReplacement ==
    [][(FetchStep /\ last'.outcome = "success" /\ RowsOn(conn, last'.date) # {})
        => LET d == last'.date
               ids == SortedIds({r.id : r \in RowsOn(conn', d)})
           IN /\ Len(ids) = Len(last'.frame)
              /\ \A i \in DOMAIN ids :
                    \E r \in RowsOn(conn', d) :
                        r.id = ids[i] /\ Stores(r, last'.frame[i], d)
              /\ RowsOn(conn', d) \cap conn.statcast_data = {}
              /\ \A r \in RowsOn(conn', d) : \A q \in conn.statcast_data : r.id # q.id]_vars

\* A fetch that found rows for its date, and replaced them by a frame of
\* another length, has returned.
C10_Witness ==
    /\ last.op = "fetch_and_store_single_day"
    /\ last.outcome = "success"
    /\ last.existing # NULL
    /\ last.existing[1] > 0
    /\ last.existing[1] # Len(last.frame)

-----------------------------------------------------------------------------
\* The seven fields of the natural key, as the properties name them.
SevenFields(r) ==
    <<r.date, r.game_pk, r.pitcher_id, r.batter_id, r.balls, r.strikes,
      r.pitch_type>>

\* No row of the set is dated before the cutoff.
NoneOlder(rows, cutoff) == \A r \in rows : ~(r.date < cutoff)

C3_OnePerKey ==
    [][DedupStep
        => /\ \A r \in conn.statcast_data :
                Cardinality({x \in conn'.statcast_data :
                                SevenFields(x) = SevenFields(r)}) = 1
           /\ \A x, y \in conn'.statcast_data :
                SevenFields(x) = SevenFields(y) => x = y]_vars

\* A de-duplication that removed rows has returned.
C3_Witness ==
    /\ last.op = "remove_duplicate_data"
    /\ last.ret > 0

\* C9: remove_duplicate_data keeps of every group its row of smallest id,
\* unchanged, deletes the others, and returns the number of rows deleted.
C9_SurvivorAndCount ==
    [][DedupStep
        => /\ conn'.statcast_data =
                {r \in conn.statcast_data :
                    \A q \in conn.statcast_data :
                        SevenFields(q) = SevenFields(r) => r.id <= q.id}
           /\ last'.ret = Cardinality(conn.statcast_data)
                             - Cardinality(conn'.statcast_data)]_vars

\* A de-duplication has returned that removed a row and left two: the
\* survivor of a group of two and a row that was alone in its group.
C9_Witness ==
    /\ last.op = "remove_duplicate_data"
    /\ last.ret = 1
    /\ last.before_count = 3
    /\ Cardinality(conn.statcast_data) = 2

\* C4 (as stated): after a fetch of date d that the remote source answered
\* with no rows, no exception has escaped and the ledger holds a row for d
\* with records_added = 0 and a status that is no error.
C4_EmptyDayLedger ==
    (last.op = "fetch_and_store_single_day" /\ last.outcome = "empty")
    => /\ ~last.escaped
       /\ \E u \in UpdatesOn(conn, last.date) :
            u.records_added = 0 /\ ~IsErrorStatus(u.status)

\* What the ledger is to say of a fetch: its record count, and whether its
\* status is an error.
RunCount(call) == IF call.outcome = "success" THEN Len(call.frame) ELSE 0
RunFailed(call) == call.outcome = "error"

\* C5 (as stated): data_updates holds at most one row for a date, and the
\* row of the date fetched last carries the record count and the status of
\* that run, be it a success, an empty day or a failure.
C5_LedgerReplace ==
    /\ \A u, v \in conn.data_updates : u.data_date = v.data_date => u = v
    /\ last.op = "fetch_and_store_single_day"
       => \E u \in UpdatesOn(conn, last.date) :
            /\ u.records_added = RunCount(last)
            /\ IsErrorStatus(u.status) = RunFailed(last)
            /\ ~RunFailed(last) /\ last.outcome = "success" => u.status = SuccessStatus

-----------------------------------------------------------------------------
\* The barrel rule: 1 when the launch speed is present and at least 98 and
\* the launch angle is present and from 26 to 30, else 0.
BarrelRule(r) ==
    r.barrel = IF /\ r.launch_speed # NULL
                  /\ r.launch_speed[1] >= 98
                  /\ r.launch_angle # NULL
                  /\ r.launch_angle[1] >= 26
                  /\ r.launch_angle[1] <= 30
               THEN 1 ELSE 0

\* C6: every stored pitch event carries the barrel flag of the barrel rule,
\* and so does every row that calculate_advanced_metrics returns.
C6_BarrelDerivation ==
    /\ \A r \in conn.statcast_data : BarrelRule(r)
    /\ \A i \in DOMAIN metrics : BarrelRule(metrics[i])

\* The store holds a barrel at the low ends of both ranges and a pitch
\* without launch speed that is none.
C6_Witness ==
    /\ \E r \in conn.statcast_data :
        r.barrel = 1 /\ r.launch_speed = Some(98) /\ r.launch_angle = Some(26)
    /\ \E r \in conn.statcast_data :
        r.barrel = 0 /\ r.launch_speed = NULL /\ r.launch_angle = Some(28)

\* The dates from start to end, ascending (none when start > end).
DatesFromTo(start, end) ==
    [i \in 1..(IF end >= start THEN end - start + 1 ELSE 0) |-> start + i - 1]

-----------------------------------------------------------------------------
\* The step is a call of remove_old_data, described by last'.
SweepStep == last'.op = "remove_old_data"

\* The sweep took from the table only rows dated before the cutoff, and
\* added and changed none.
OnlyOlderGone(before, after, cutoff) ==
    /\ after \subseteq before
    /\ \A r \in before \ after : r.date < cutoff
    /\ \A r \in before : r.date >= cutoff => r \in after

\* C11: remove_old_data deletes only rows dated before the cutoff: in
\* daily_hitting, daily_pitching and statcast_data every row dated at the
\* cutoff or later is left as it was, and so is every row of data_updates.
C11_RetentionBoundary ==
    [][SweepStep
        => /\ OnlyOlderGone(conn.daily_hitting, conn'.daily_hitting, last'.cutoff_date)
           /\ OnlyOlderGone(conn.daily_pitching, conn'.daily_pitching, last'.cutoff_date)
           /\ OnlyOlderGone(conn.statcast_data, conn'.statcast_data, last'.cutoff_date)
           /\ \A u \in conn.data_updates :
                u.data_date >= last'.cutoff_date => u \in conn'.data_updates
           /\ conn'.data_updates \subseteq conn.data_updates]_vars

\* A sweep has returned that removed a pitch event dated before the cutoff
\* (the file still holds it) and kept one dated at the cutoff.
C11_Witness ==
    /\ last.op = "remove_old_data"
    /\ \E r \in conn.statcast_data : r.date = last.cutoff_date
    /\ \E r \in disk.statcast_data :
        r.date < last.cutoff_date /\ r \notin conn.statcast_data
    /\ \E r \in conn.daily_hitting : r.date = last.cutoff_date

-----------------------------------------------------------------------------
\* C12 (as stated): after daily_update has returned 0 the database file, as
\* a new connection reads it, holds no row of statcast_data, daily_hitting
\* or daily_pitching dated before the cutoff of 45 days.
C12_DailyUpdatePrunes ==
    (last.op = "daily_update" /\ last.ret = 0)
    => /\ NoneOlder(disk.statcast_data, today - DaysToKeep)
       /\ NoneOlder(disk.daily_hitting, today - DaysToKeep)
       /\ NoneOlder(disk.daily_pitching, today - DaysToKeep)

\* The date is one of start..end.
Inside(date, start, end) == start <= date /\ date <= end

\* C13: the regeneration empties the four tables and commits in one step;
\* it then fetches the 45 dates from yesterday - 44 to yesterday, ascending,
\* each once; when it has finished, every row of statcast_data and of
\* data_updates in the file is dated inside that range and the daily
\* tables are empty; no row from before the wipe is left, as every row in
\* the file after the wipe is one that the pass of its date wrote, under
\* an id that no row had before.
C13_Regeneration ==
    /\ [][(pc = "idle" /\ pc' = "regenerate")
            => /\ disk'.statcast_data = {} /\ disk'.daily_hitting = {}
               /\ disk'.daily_pitching = {} /\ disk'.data_updates = {}
               /\ conn' = disk'
               /\ range'.end = today - 1
               /\ range'.start = today - 1 - 44]_vars
    /\ [](last.op = "regenerate_database"
            => /\ Len(last.log) = 45
               /\ last.log = DatesFromTo(today - 45, today - 1)
               /\ \A r \in disk.statcast_data : Inside(r.date, today - 45, today - 1)
               /\ \A u \in disk.data_updates : Inside(u.data_date, today - 45, today - 1)
               /\ disk.daily_hitting = {} /\ disk.daily_pitching = {}
               /\ conn = disk)
    /\ [][pc = "regenerate"
            => /\ \A r \in disk'.statcast_data \ disk.statcast_data :
                    r.date = range.cur /\ r.id > disk.seq_statcast
               /\ \A u \in disk'.data_updates \ disk.data_updates :
                    u.data_date = range.cur /\ u.id > disk.seq_updates]_vars

\* A regeneration of the store that held rows from before, at and after
\* the cutoff has finished and has stored a day.
C13_Witness ==
    /\ last.op = "regenerate_database"
    /\ disk.statcast_data # {}
    /\ disk.seq_statcast > KeptStore.seq_statcast

-----------------------------------------------------------------------------
\* The name has a comma.
HasComma(name) == Len(name.pieces) > 1

\* The name is in the loaded directory: its last and first names, without
\* the blanks around them, are those of an entry.
InDirectory(name) ==
    /\ HasComma(name)
    /\ \E i \in DOMAIN player_register[1] :
        /\ player_register[1][i].name_last = Strip(name.pieces[1])
        /\ Len(player_register[1][i].name_first) = Len(name.pieces) - 1
        /\ \A k \in DOMAIN player_register[1][i].name_first :
            player_register[1][i].name_first[k] =
                IF k = 1 THEN Strip(name.pieces[2]) ELSE name.pieces[k + 1]

\* The rows of a returned list.
Listed(rows) == {rows[i] : i \in DOMAIN rows}

\* The rows of the three tables that carry the name.
RowsNamed(db, text) ==
    {r \in db.daily_hitting \cup db.daily_pitching \cup db.statcast_data :
        r.player_name = text}

LookupStep ==
    last'.op \in {"get_player_id_from_name", "get_player_name_from_id", "get_player_data"}

\* C15: a new manager has no directory and has not called the remote
\* register; a lookup without a directory calls it; once a call has
\* answered, no lookup of this manager calls it again and the directory
\* stays as it is.
C15_DirectoryLoadedOnce ==
    /\ [](last.op = "__init__" => player_register = NULL /\ loads = 0)
    /\ [][(LookupStep /\ player_register = NULL)
            => /\ last'.called
               /\ loads' = loads + 1
               /\ (player_register' # NULL) = ~last'.raised]_vars
    /\ [][(LookupStep /\ player_register # NULL)
            => /\ ~last'.called
               /\ loads' = loads
               /\ player_register' = player_register]_vars

\* A lookup has returned that did not call the remote register although
\* the directory, loaded after a call that raised, holds no player.
C15_Witness ==
    /\ last.op = "get_player_id_from_name"
    /\ ~last.called
    /\ player_register = Some(<<>>)
    /\ loads = 2

-----------------------------------------------------------------------------
\* The game, pitcher, batter, count and pitch type of a pitch event, as
\* the remote source and the columns game_pk, pitcher, batter, balls,
\* strikes and pitch_type carry them.
EventKey(p) == <<p.game_pk, p.pitcher, p.batter, p.balls, p.strikes, p.pitch_type>>

\* C16 (as stated): after a successful fetch of a day whose frame holds
\* two pitch events of the same game, pitcher, batter, count and pitch
\* type, statcast_data holds at most one of the two for that date.
C16_KeyCollisionOnWrite ==
    (last.op = "fetch_and_store_single_day" /\ last.outcome = "success")
    => \A i, j \in DOMAIN last.frame :
          (i < j /\ EventKey(last.frame[i]) = EventKey(last.frame[j]))
          => ~ \E r1, r2 \in RowsOn(conn, last.date) :
                  /\ r1.id # r2.id
                  /\ Stores(r1, last.frame[i], last.date)
                  /\ Stores(r2, last.frame[j], last.date)

\* C20 (as stated): remove_duplicate_data deletes a row only if a row that
\* remains has the same date, game, pitcher, batter, count and pitch type.
C20_OnlyTrueDuplicates ==
    [][DedupStep
        => \A r \in conn.statcast_data \ conn'.statcast_data :
              \E q \in conn'.statcast_data :
                  q.date = r.date /\ EventKey(q) = EventKey(r)]_vars

-----------------------------------------------------------------------------
\* The file holds for the date what the connection holds.
Persisted(d) ==
    /\ RowsOn(disk, d) = RowsOn(conn, d)
    /\ UpdatesOn(disk, d) = UpdatesOn(conn, d)

\* C17: inside fetch_and_store_date_range, what the fetch of a date has
\* left when it returns is in the file (after a success the rows of its
\* frame and its ledger row, after a failure its ledger row), and no later
\* step of the range, a stop of the process at any point included, takes a
\* pitch event or the ledger row of a date fetched earlier in the range
\* from the file.
C17_CommittedDaysSurvive ==
    /\ []((pc = "range" /\ range.log # <<>>)
            => LET d == range.log[Len(range.log)]
               IN /\ Persisted(d)
                  /\ last.outcome = "success"
                       => /\ Cardinality(RowsOn(disk, d)) = Len(last.frame)
                          /\ \E u \in UpdatesOn(disk, d) :
                                u.records_added = Len(last.frame)
                  /\ last.outcome = "error"
                       => \E u \in UpdatesOn(disk, d) : IsErrorStatus(u.status))
    /\ [][pc = "range"
            => \A i \in DOMAIN range.log :
                  /\ RowsOn(disk', range.log[i]) = RowsOn(disk, range.log[i])
                  /\ UpdatesOn(disk', range.log[i]) = UpdatesOn(disk, range.log[i])]_vars

\* The process has stopped in the second pass of a range, after the DELETE
\* of the rows that the day had; the file holds the pitch events and the
\* ledger row of the first day.
C17_Witness ==
    /\ last.op = "crash"
    /\ last.point = "delete"
    /\ Len(last.log) = 1
    /\ RowsOn(disk, last.date) = {}
    /\ RowsOn(disk, last.log[1]) # {}
    /\ UpdatesOn(disk, last.log[1]) # {}
    /\ disk.seq_statcast > Cardinality(disk.statcast_data)

-----------------------------------------------------------------------------
\* C18 (as stated): each DELETE of remove_old_data is durable once it has
\* run: inside the sweep, the file holds no row dated before the cutoff in
\* a table whose DELETE is done (so that a stop between two DELETEs leaves
\* the file with that table pruned and the next not).
C18_DeletesDurableAlone ==
    pc = "sweep"
    => \A k \in 1..sweep.done : NoneOlder(disk[SweepTables[k]], sweep.cutoff_date)

\* C18 (amended): no DELETE of remove_old_data is durable on its own: no
\* step inside the sweep, a stop of the process included, changes the
\* file, and after a stop between two DELETEs the store is the file as it
\* was before the sweep, with no table pruned.
C18_SweepNotDurable ==
    /\ [][pc = "sweep" => disk' = disk]_vars
    /\ [](last.op = "crash" => conn = disk)
    /\ [][(pc = "sweep" /\ pc' = "sweep")
            => conn'[SweepTables[sweep'.done]]
                 = {r \in conn[SweepTables[sweep'.done]] : r.date >= sweep.cutoff_date}]_vars

\* The process has stopped after the first DELETE, which had removed a
\* daily hitting line dated before the cutoff: the file holds that line
\* and the daily pitching lines dated before the cutoff.
C18_Witness ==
    /\ last.op = "crash"
    /\ last.done = 1
    /\ \E r \in disk.daily_hitting : r.date < last.cutoff_date
    /\ \E r \in disk.daily_pitching : r.date < last.cutoff_date
    /\ conn = disk

-----------------------------------------------------------------------------
\* Both concurrent fetches have returned.
BothDone == pc = "concurrent" /\ \A p \in Procs : writers[p].at = "done"

\* The rows the process inserted that the file holds.
RowsOf(p) ==
    IF writers[p].first_id = NULL THEN {}
    ELSE {r \in disk.statcast_data :
            /\ writers[p].first_id[1] <= r.id
            /\ r.id < writers[p].first_id[1] + Len(writers[p].frame)}

\* C19: nothing keeps two concurrent fetches of a date apart: both insert
\* their frames, and when both have returned and the one that inserted
\* second had read its count before the first inserted and found no rows
\* (the date had none, or the first had deleted them), the date holds the
\* rows of both fetches; the ledger row counts the rows of one.
C19_ConcurrentDuplication ==
    BothDone
    => /\ \A p \in Procs : writers[p].first_id # NULL
       /\ \A p, q \in Procs :
            (/\ writers[q].first_id[1] < writers[p].first_id[1]
             /\ writers[p].existing_count = Some(0))
            => /\ Cardinality(RowsOn(disk, writers[p].date))
                    = Len(writers[p].frame) + Len(writers[q].frame)
               /\ Cardinality(RowsOf(p)) = Len(writers[p].frame)
               /\ Cardinality(RowsOf(q)) = Len(writers[q].frame)
               /\ \A u \in UpdatesOn(disk, writers[p].date) :
                    u.records_added < Cardinality(RowsOn(disk, writers[p].date))

\* Two fetches of a date that had rows have returned, both answered the
\* same frame of two pitches: the first deleted the rows, the second then
\* counted none, and the date holds the frame twice.
C19_Witness ==
    /\ BothDone
    /\ writers[1].frame = writers[2].frame
    /\ Len(writers[1].frame) = 2
    /\ writers[1].existing_count = Some(1)
    /\ writers[2].existing_count = Some(0)
    /\ Cardinality(RowsOn(disk, writers[1].date)) = 4

-----------------------------------------------------------------------------
\* The id that get_player_id_from_name gives the name of the last call
\* with the directory the manager holds, NULL when it gives None.
ResolvedId == PlayerIdFromName(player_register[1], last.arg)

\* The pitch event carries the name or, when the name resolves to an id,
\* that id as its batter or its pitcher.
Matches(r) ==
    \/ r.player_name = last.arg.text
    \/ /\ ResolvedId # NULL
       /\ r.batter = ToStr(ResolvedId[1]) \/ r.pitcher = ToStr(ResolvedId[1])

\* C21: get_player_data(name, start, end) returns, each once, exactly
\* the pitch events with start <= date <= end that carry the name or,
\* when the name resolves to an id, that id as batter or pitcher, and
\* returns them by descending date.
C21_StatcastLookup ==
    (last.op = "get_player_data" /\ ~last.raised)
        => LET statcast == last.ret[1].statcast
           IN /\ Listed(statcast) =
                    {r \in conn.statcast_data :
                        /\ last.start_date <= r.date /\ r.date <= last.end_date
                        /\ Matches(r)}
              /\ Len(statcast) = Cardinality(Listed(statcast))
              /\ \A i, j \in DOMAIN statcast :
                    i < j => statcast[i].date >= statcast[j].date

\* get_player_data has returned three of four stored pitch events, of
\* two dates, for a name that none of them carries and that resolves to
\* the id of their batter.
C21_Witness ==
    /\ last.op = "get_player_data"
    /\ ~last.raised
    /\ ResolvedId # NULL
    /\ Len(last.ret[1].statcast) = 3
    /\ Cardinality(conn.statcast_data) = 4
    /\ last.ret[1].statcast[1].date = 2
    /\ last.ret[1].statcast[3].date = 1
    /\ \A r \in conn.statcast_data : r.player_name # last.arg.text

-----------------------------------------------------------------------------
\* The entries of the loaded directory with the id, and the name that
\* get_player_name_from_id makes of an entry.
EntriesOfId(player_id) ==
    {i \in DOMAIN player_register[1] :
        player_register[1][i].key_mlbam = ToInt(player_id)}

NameOfEntry(i) ==
    FormatName(player_register[1][i].name_last, player_register[1][i].name_first)

\* C22 as stated: for every id of the loaded directory the id of its name
\* is the id again, and for every "Last, First" name of the directory the
\* name of its id is the name again.
C22_RoundTrip ==
    /\ last.op = "id_of_name_of_id" => last.ret = ToInt(last.arg)
    /\ (last.op = "name_of_id_of_name"
            /\ \E i \in DOMAIN player_register[1] : NameOfEntry(i) = last.arg)
        => last.ret = Some(last.arg)

\* C22, amended: for every "Last, First" name of the loaded directory the
\* name of its id is the name again; for every id of the directory the
\* id of its name is the id of the first entry with that name, which is
\* the id again exactly when no earlier entry has the name.
C22_RoundTripToFirstOfName ==
    /\ last.op = "id_of_name_of_id"
        => LET i == Min(EntriesOfId(last.arg))
               first == Min({k \in DOMAIN player_register[1] :
                               NameOfEntry(k) = NameOfEntry(i)})
           IN /\ last.name = NameOfEntry(i)
              /\ last.ret = player_register[1][first].key_mlbam
              /\ (last.ret = ToInt(last.arg)) <=> (first = i)
    /\ (last.op = "name_of_id_of_name"
            /\ \E i \in DOMAIN player_register[1] : NameOfEntry(i) = last.arg)
        => last.ret = Some(last.arg)

\* The id of the name of an id of the directory has been looked up and is
\* the id of another player of the same name.
C22_Witness ==
    /\ last.op = "id_of_name_of_id"
    /\ EntriesOfId(last.arg) # {}
    /\ last.ret # NULL
    /\ last.ret # ToInt(last.arg)

-----------------------------------------------------------------------------
\* C23 as stated: a fetch of date d that ends on its error path, its
\* remote call or its insert having failed, has recorded an 'error: ...'
\* ledger row and leaves the pitch events of d as they were before the
\* call.
C23_ErrorKeepsDay ==
    [][(FetchStep /\ last'.outcome = "error" /\ last'.fault \in {"remote", "insert"})
        => /\ RowsOn(conn', last'.date) = RowsOn(conn, last'.date)
           /\ \E u \in UpdatesOn(conn', last'.date) : IsErrorStatus(u.status)]_vars

\* C24: a fetch of date d that is answered no rows leaves the pitch
\* events of d as they were, in the connection and in the file.
C24_EmptyKeepsDay ==
    [][(FetchStep /\ last'.frame = <<>> /\ last'.fault = "none")
        => /\ last'.outcome = "empty"
           /\ RowsOn(conn', last'.date) = RowsOn(conn, last'.date)
           /\ RowsOn(disk', last'.date) = RowsOn(disk, last'.date)]_vars

\* A fetch has been answered no rows for a date that has pitch events.
C24_Witness ==
    /\ last.op = "fetch_and_store_single_day"
    /\ last.outcome = "empty"
    /\ RowsOn(conn, last.date) # {}
    /\ RowsOn(disk, last.date) # {}

\* C25 as stated: a fetch of date d, however it ends, leaves the pitch
\* events and the ledger rows of every other date and the two daily
\* tables as they were before the call.
C25_SingleDayFrame ==
    [][FetchStep
        => /\ \A d \in Dates \ {last'.date} :
                /\ RowsOn(conn', d) = RowsOn(conn, d)
                /\ UpdatesOn(conn', d) = UpdatesOn(conn, d)
           /\ conn'.daily_hitting = conn.daily_hitting
           /\ conn'.daily_pitching = conn.daily_pitching]_vars

\* C26: after a fetch of date d has ended on its success path, the ledger
\* has one row for d, with status 'success' and with records_added equal
\* to the number of pitch events of d, in the connection and in the file.
C26_LedgerCount ==
    (last.op = "fetch_and_store_single_day" /\ last.outcome = "success")
        => /\ \A db \in {conn, disk} :
                /\ Cardinality(UpdatesOn(db, last.date)) = 1
                /\ \A u \in UpdatesOn(db, last.date) :
                      /\ u.status = SuccessStatus
                      /\ u.records_added = Cardinality(RowsOn(db, last.date))

\* A fetch has ended on its success path with two pitch events, for a
\* date that had pitch events before.
C26_Witness ==
    /\ last.op = "fetch_and_store_single_day"
    /\ last.outcome = "success"
    /\ last.existing # NULL
    /\ last.existing[1] > 0
    /\ Cardinality(RowsOn(conn, last.date)) = 2

\* C27: every date with a pitch event has exactly one ledger row, in the
\* connection and in the file, after every sequence of fetches, range
\* fetches, sweeps and dedup runs.
C27_LedgerCoverage ==
    \A db \in {conn, disk} : \A d \in Dates :
        RowsOn(db, d) # {} => Cardinality(UpdatesOn(db, d)) = 1

\* Both dates have pitch events; the ledger row of one of them says
\* 'error', from a fetch whose ledger write raised after the rows were
\* written.
C27_Witness ==
    /\ \A d \in Dates : RowsOn(conn, d) # {} /\ RowsOn(disk, d) # {}
    /\ \E u \in conn.data_updates : IsErrorStatus(u.status)
    /\ last.op = "fetch_and_store_single_day"
    /\ last.fault = "ledger"

\* C28: a call of remove_duplicate_data that directly follows another
\* removes nothing, returns 0 and leaves statcast_data as it was, in the
\* connection and in the file.
C28_DedupIdempotent ==
    [][(DedupStep /\ last.op = "remove_duplicate_data")
        => /\ last'.ret = 0
           /\ last'.before_count = Cardinality(conn.statcast_data)
           /\ conn'.statcast_data = conn.statcast_data
           /\ disk'.statcast_data = disk.statcast_data]_vars

\* remove_duplicate_data has returned 0 directly after a call of it that
\* removed a row.
C28_Witness ==
    /\ last.op = "remove_duplicate_data"
    /\ last.previous # NULL
    /\ last.previous[1] > 0
    /\ last.ret = 0
    /\ conn.statcast_data # {}

-----------------------------------------------------------------------------
\* The ids among the batters and pitchers of the stored pitch events that
\* the loaded directory resolves to a name.
Resolvable ==
    {id \in DistinctBatters(conn) \cup DistinctPitchers(conn) :
        PlayerNameFromId(player_register[1], id) # NULL}

\* The type of an id by where it occurs in statcast_data.
TypeOf(id) ==
    IF id \in DistinctBatters(conn) /\ id \in DistinctPitchers(conn) THEN "two-way"
    ELSE IF id \in DistinctBatters(conn) THEN "hitter"
    ELSE "pitcher"

\* C29 as stated: get_all_available_players returns a list sorted by
\* name, with one entry for each id that resolves to a name and no other
\* entry, each with the name of its id and typed 'two-way', 'hitter' or
\* 'pitcher' by whether the id occurs as batter and as pitcher, only as
\* batter or only as pitcher.
C29_PlayerClassification ==
    (last.op = "get_all_available_players" /\ ~last.raised)
        => LET players == last.ret[1]
           IN /\ \A i, j \in DOMAIN players :
                    i < j => NameRank(players[i].name) <= NameRank(players[j].name)
              /\ \A id \in Resolvable :
                    Cardinality({i \in DOMAIN players : players[i].id = id}) = 1
              /\ \A i \in DOMAIN players :
                    /\ players[i].id \in Resolvable
                    /\ players[i].name = PlayerNameFromId(player_register[1],
                                                          players[i].id)[1].text
                    /\ players[i].type = TypeOf(players[i].id)

====
